---- MODULE Spec2Model ----
(***************************************************************************)
(* Verification model of the MaxScale cache filter's multi-threaded LRU    *)
(* storage (server/modules/filter/cache/lrustoragemt.cc) and of the filter *)
(* scaffold (include/maxscale/filter.hh).                                  *)
(*                                                                         *)
(* LRUStorageMT derives from LRUStorage; the core do_* operations of       *)
(* LRUStorage are defined in lrustorage.cc, so they are modelled here from *)
(* section 4.2 of the specification.  The wrappers, the constructor and    *)
(* the lock are modelled from lrustoragemt.cc.                             *)
(***************************************************************************)
EXTENDS Integers, Sequences, FiniteSets, TLC

\* ------------------------------------------------------------------------
\* Bounds
\* ------------------------------------------------------------------------
MaxLen == 2
MaxCountLimit == 2
MaxSizeLimit == 2
NumThreads == 2
NumSessions == 2

\* ------------------------------------------------------------------------
\* Value domains
\* ------------------------------------------------------------------------
\* CACHE_KEY: opaque, comparable identities.
CACHE_KEY == {"A", "B", "C"}

\* A GWBUF value: a byte sequence whose first byte is b, of length n.  Two
\* first bytes give two different values of every length.
Buf(b, n) == [i \in 1..n |-> IF i = 1 THEN b ELSE 0]

FirstBytes == {0, 1}

GWBUF == {Buf(b, n) : b \in FirstBytes, n \in 1..MaxLen}

\* What counts against max_total_size: the byte length of the value.
GWBUF_LENGTH(v) == Len(v)

\* Marker of a key the underlying Storage does not hold.
NoValue == <<>>

\* Marker of "no key" in an out-parameter or in the history.
NoKey == "-"

\* cache_result_t
CACHE_RESULT_OK == "OK"
CACHE_RESULT_NOT_FOUND == "NOT_FOUND"
CACHE_RESULT_ERROR == "ERROR"

\* Behaviour of the underlying Storage during one call: every backend call
\* succeeds ("none"), or the backend get / put / delete reports a failure;
\* "del2" lets the first backend delete of the call succeed and fails the
\* second one.
BackendOk == "none"
BackendFaults == {"get", "put", "del", "del2"}

VARIABLES
    cfg,              \* the limits the creator passed to LRUStorageMT::create
    max_item_count,   \* limit held by the LRU storage, 0 = unlimited
    max_total_size,   \* limit held by the LRU storage, 0 = unlimited
    storage,          \* the underlying Storage: key -> value or NoValue
    nodes_by_key,     \* key -> node map; a node records the size of its entry
    lru,              \* recency list of keys, head = most recently used
    item_count,       \* running total: number of entries
    total_size,       \* running total: bytes stored
    lock_,            \* the spinlock: 0 = free, else the holding thread
    pc,               \* per thread: the public operation called and the position in it
    regs,             \* per thread: the running totals the core operation has loaded
    used,             \* history: keys by last successful get/put, newest first
    last,             \* history: the last completed call
    scen,             \* history: how far the calls so far follow Scenario
    finstance,        \* what the driver holds for the filter instance
    fsession,         \* per connection: what the driver holds for the filter session
    linked,           \* per connection: the links the driver has set on the session
    m_down,           \* per filter session: FilterSession::m_down.m_data
    m_up,             \* per filter session: FilterSession::m_up.m_data
    closes,           \* per filter session: how often close() has been delivered
    destroyed,        \* per filter session: the session object has been deleted
    fcall             \* history: the last call of a filter entry point

vars == <<cfg, max_item_count, max_total_size, storage, nodes_by_key, lru,
          item_count, total_size, lock_, pc, regs, used, last, scen,
          finstance, fsession, linked, m_down, m_up, closes, destroyed, fcall>>

lruVars == <<storage, nodes_by_key, lru, item_count, total_size>>
limitVars == <<cfg, max_item_count, max_total_size>>
histVars == <<used, last, scen>>
filterVars == <<finstance, fsession, linked, m_down, m_up, closes, destroyed, fcall>>

Threads == 1..NumThreads

\* ------------------------------------------------------------------------
\* Sequence helpers
\* ------------------------------------------------------------------------
Without(list, k) == SelectSeq(list, LAMBDA x : x # k)

MoveToFront(list, k) == <<k>> \o Without(list, k)

SeqToSet(list) == {list[i] : i \in 1..Len(list)}

MapRemove(m, k) == [x \in (DOMAIN m) \ {k} |-> m[x]]

MapPut(m, k, n) == [x \in (DOMAIN m) \cup {k} |-> IF x = k THEN n ELSE m[x]]

\* ------------------------------------------------------------------------
\* The LRU storage core (LRUStorage::do_*), as a state record
\* ------------------------------------------------------------------------
State == [storage |-> storage, nodes_by_key |-> nodes_by_key, lru |-> lru,
          item_count |-> item_count, total_size |-> total_size,
          max_item_count |-> max_item_count, max_total_size |-> max_total_size]

\* What a core operation hands back: the state it leaves, the result code
\* and the out-parameters (value, key, number, info) it filled in.
Result(s, rc, value, evicted) ==
    [st |-> s, rc |-> rc, value |-> value, key |-> NoKey, num |-> 0, info |-> <<>>,
     evicted |-> evicted]

\* The condition of the eviction loop.
OverLimit(s) ==
    \/ s.max_item_count # 0 /\ s.item_count > s.max_item_count
    \/ s.max_total_size # 0 /\ s.total_size > s.max_total_size

\* One eviction: the least recently used node is removed from the
\* underlying Storage, from the map and from the list; totals follow.
EvictTail(s) ==
    LET k == s.lru[Len(s.lru)]
    IN [s EXCEPT !.storage = [@ EXCEPT ![k] = NoValue],
                 !.nodes_by_key = MapRemove(@, k),
                 !.lru = SubSeq(@, 1, Len(@) - 1),
                 !.item_count = @ - 1,
                 !.total_size = @ - s.nodes_by_key[k]]

\* The backend behaviour left for the rest of a call after one backend
\* delete has succeeded.
AfterDelete(bf) == IF bf = "del2" THEN "del" ELSE bf

\* The eviction loop of do_put_value.  A failing backend delete ends the
\* loop without any bookkeeping change for that node.
RECURSIVE EvictLoop(_, _, _)
EvictLoop(s, bf, evicted) ==
    IF ~OverLimit(s) \/ Len(s.lru) = 0
    THEN Result(s, CACHE_RESULT_OK, NoValue, evicted)
    ELSE IF bf = "del"
         THEN Result(s, CACHE_RESULT_ERROR, NoValue, evicted)
         ELSE EvictLoop(EvictTail(s), AfterDelete(bf), evicted \cup {s.lru[Len(s.lru)]})

\* The insert / update of do_put_value: the value goes into the underlying
\* Storage, the node to the most recently used end, the totals follow.
StoreValue(s, k, v) ==
    IF k \in DOMAIN s.nodes_by_key
    THEN [s EXCEPT !.storage = [@ EXCEPT ![k] = v],
                   !.total_size = @ - s.nodes_by_key[k] + GWBUF_LENGTH(v),
                   !.nodes_by_key = MapPut(@, k, GWBUF_LENGTH(v)),
                   !.lru = MoveToFront(@, k)]
    ELSE [s EXCEPT !.storage = [@ EXCEPT ![k] = v],
                   !.nodes_by_key = MapPut(@, k, GWBUF_LENGTH(v)),
                   !.lru = <<k>> \o @,
                   !.item_count = @ + 1,
                   !.total_size = @ + GWBUF_LENGTH(v)]

do_put_value(s, k, v, bf) ==
    IF bf = "put"
    THEN Result(s, CACHE_RESULT_ERROR, NoValue, {})
    ELSE EvictLoop(StoreValue(s, k, v), bf, {})

do_get_value(s, k, bf) ==
    IF bf = "get"
    THEN Result(s, CACHE_RESULT_ERROR, NoValue, {})
    ELSE IF s.storage[k] = NoValue
         THEN Result(s, CACHE_RESULT_NOT_FOUND, NoValue, {})
         ELSE Result([s EXCEPT !.lru = IF k \in DOMAIN s.nodes_by_key
                                       THEN MoveToFront(@, k) ELSE @],
                     CACHE_RESULT_OK, s.storage[k], {})

do_del_value(s, k, bf) ==
    IF bf = "del"
    THEN Result(s, CACHE_RESULT_ERROR, NoValue, {})
    ELSE IF s.storage[k] = NoValue
         THEN Result(s, CACHE_RESULT_NOT_FOUND, NoValue, {})
         ELSE Result([s EXCEPT !.storage = [@ EXCEPT ![k] = NoValue],
                               !.nodes_by_key = MapRemove(@, k),
                               !.lru = Without(@, k),
                               !.item_count = @ - 1,
                               !.total_size = @ - s.nodes_by_key[k]],
                     CACHE_RESULT_OK, NoValue, {})

\* Entry at the most recently used end; the order is not changed.
do_get_head(s) ==
    IF Len(s.lru) = 0
    THEN Result(s, CACHE_RESULT_NOT_FOUND, NoValue, {})
    ELSE [Result(s, CACHE_RESULT_OK, s.storage[s.lru[1]], {})
             EXCEPT !.key = s.lru[1]]

\* Entry at the least recently used end; the order is not changed.
do_get_tail(s) ==
    IF Len(s.lru) = 0
    THEN Result(s, CACHE_RESULT_NOT_FOUND, NoValue, {})
    ELSE [Result(s, CACHE_RESULT_OK, s.storage[s.lru[Len(s.lru)]], {})
             EXCEPT !.key = s.lru[Len(s.lru)]]

do_get_size(s) ==
    [Result(s, CACHE_RESULT_OK, NoValue, {}) EXCEPT !.num = s.total_size]

do_get_items(s) ==
    [Result(s, CACHE_RESULT_OK, NoValue, {}) EXCEPT !.num = s.item_count]

\* The diagnostic snapshot: max_item_count, max_total_size, item_count,
\* total_size, in this order.
do_get_info(s) ==
    [Result(s, CACHE_RESULT_OK, NoValue, {})
        EXCEPT !.info = <<s.max_item_count, s.max_total_size,
                          s.item_count, s.total_size>>]

\* ------------------------------------------------------------------------
\* LRUStorageMT: constructor and public operations (lrustoragemt.cc)
\* ------------------------------------------------------------------------
\* Variants of the constructor with the arguments to LRUStorage mixed up.
LRUStorageMT_swapped(max_count, max_size) ==
    [max_item_count |-> max_size, max_total_size |-> max_count]

LRUStorageMT_count_twice(max_count, max_size) ==
    [max_item_count |-> max_count, max_total_size |-> max_count]

\* Variant of the constructor: a limit of 0 is handed on as 1.
LRUStorageMT_floor(max_count, max_size) ==
    [max_item_count |-> IF max_count = 0 THEN 1 ELSE max_count,
     max_total_size |-> IF max_size = 0 THEN 1 ELSE max_size]

\* The constructor hands max_count and max_size on to LRUStorage.
LRUStorageMT(max_count, max_size) ==
    [max_item_count |-> max_count, max_total_size |-> max_size]

\* Each public operation runs the core operation while holding lock_.
get_info(s) == do_get_info(s)

\* Variant of get_value: a failure of the core is handed back as a miss.
get_value_miss_on_error(s, k, bf) ==
    IF do_get_value(s, k, bf).rc = CACHE_RESULT_ERROR
    THEN [do_get_value(s, k, bf) EXCEPT !.rc = CACHE_RESULT_NOT_FOUND]
    ELSE do_get_value(s, k, bf)

\* Variants that go to the underlying Storage directly, past the core.
get_value_bypass(s, k, bf) == [do_get_value(s, k, bf) EXCEPT !.st = s]

put_value_bypass(s, k, v, bf) ==
    IF bf = "put"
    THEN Result(s, CACHE_RESULT_ERROR, NoValue, {})
    ELSE Result([s EXCEPT !.storage = [@ EXCEPT ![k] = v]], CACHE_RESULT_OK, NoValue, {})

del_value_bypass(s, k, bf) ==
    [do_del_value(s, k, bf) EXCEPT !.st = [s EXCEPT !.storage = do_del_value(s, k, bf).st.storage]]

\* Variant of put_value: when the core reports a failure, the put is done
\* again on a Storage that works.
put_value_again(s, k, v, bf) ==
    IF do_put_value(s, k, v, bf).rc = CACHE_RESULT_ERROR
    THEN [do_put_value(s, k, v, BackendOk) EXCEPT !.rc = CACHE_RESULT_ERROR]
    ELSE do_put_value(s, k, v, bf)

get_value(s, k, bf) == do_get_value(s, k, bf)

put_value(s, k, v, bf) == do_put_value(s, k, v, bf)

del_value(s, k, bf) == do_del_value(s, k, bf)

get_head(s) == do_get_head(s)

\* Variant of get_tail: the entry handed out is made the most recently used.
get_tail_touch(s) ==
    IF Len(s.lru) = 0
    THEN do_get_tail(s)
    ELSE [do_get_tail(s) EXCEPT !.st.lru = MoveToFront(@, s.lru[Len(s.lru)])]

get_tail(s) == do_get_tail(s)

\* Variant of get_size: the core operation of get_items is called.
get_size_as_items(s) == do_get_items(s)

get_size(s) == do_get_size(s)

get_items(s) == do_get_items(s)

\* ------------------------------------------------------------------------
\* History kept for the properties
\* ------------------------------------------------------------------------
\* The calls of the recency example of the specification.
Scenario == << [op |-> "put", key |-> "A"], [op |-> "put", key |-> "B"],
               [op |-> "get", key |-> "A"], [op |-> "put", key |-> "C"] >>

NoCall == [op |-> "none", key |-> NoKey, arg |-> NoValue, bf |-> BackendOk,
           rc |-> CACHE_RESULT_OK, value |-> NoValue,
           out_key |-> NoKey, num |-> 0, info |-> <<>>,
           existed |-> FALSE, pre_count |-> 0, pre_size |-> 0,
           after_put |-> FALSE, put_was_new |-> FALSE, put_was_clean |-> FALSE,
           evicted |-> {}]

\* The call completed just before was a successful put on key k.
JustPut(k) == last.op = "put" /\ last.key = k /\ last.rc = CACHE_RESULT_OK

\* The record of a call op(k, v) that returned r from the state s, with the
\* underlying Storage behaving as bf.
Completed(op, k, v, bf, s, r) ==
    [op |-> op, key |-> k, arg |-> v, bf |-> bf, rc |-> r.rc, value |-> r.value,
     out_key |-> r.key, num |-> r.num, info |-> r.info,
     existed |-> IF k \in CACHE_KEY THEN s.storage[k] # NoValue ELSE FALSE,
     pre_count |-> s.item_count, pre_size |-> s.total_size,
     after_put |-> JustPut(k),
     put_was_new |-> JustPut(k) /\ ~last.existed,
     put_was_clean |-> JustPut(k) /\ last.evicted = {},
     evicted |-> r.evicted]

Record(op, k, v, s, r) ==
    /\ last' = Completed(op, k, v, BackendOk, s, r)
    /\ used' = IF op \in {"get", "put"} /\ r.rc = CACHE_RESULT_OK
               THEN MoveToFront(used, k) ELSE used
    /\ scen' = IF /\ scen < Len(Scenario)
                  /\ Scenario[scen + 1] = [op |-> op, key |-> k]
               THEN scen + 1
               ELSE Len(Scenario) + 1

\* The state of the LRU storage becomes s.
Becomes(s) ==
    /\ storage' = s.storage
    /\ nodes_by_key' = s.nodes_by_key
    /\ lru' = s.lru
    /\ item_count' = s.item_count
    /\ total_size' = s.total_size

\* A thread that is in no public operation, and registers holding nothing.
Idle == [fn |-> "none", at |-> "idle"]

NoRegs == <<0, 0>>

\* ------------------------------------------------------------------------
\* The filter scaffold (include/maxscale/filter.hh)
\* ------------------------------------------------------------------------
Sessions == 1..NumSessions

NULL == "NULL"

\* The components a session can be wired to: the session objects of the
\* next component towards the backend and of the previous one towards the
\* client.
DownTargets == {"d1", "d2"}

UpTargets == {"u1"}

\* DOWNSTREAM / UPSTREAM values the driver binds.
DOWNSTREAM(d) == [instance |-> "next", session |-> d, entry |-> "next.routeQuery"]

UPSTREAM(u) == [instance |-> "prev", session |-> u, entry |-> "prev.clientReply"]

\* Downstream::Downstream() and Upstream::Upstream(): all members NULL.
Downstream_default == [instance |-> NULL, session |-> NULL, entry |-> NULL]

Upstream_default == [instance |-> NULL, session |-> NULL, entry |-> NULL]

\* Downstream::Downstream(const DOWNSTREAM&), Upstream::Upstream(const UPSTREAM&).
Downstream(down) == down

Upstream(up) == up

\* Downstream::routeQuery: the one call m_data.routeQuery(instance, session, pPacket).
Downstream_routeQuery(m_data, pPacket) ==
    [entry |-> m_data.entry, instance |-> m_data.instance,
     session |-> m_data.session, packet |-> pPacket]

\* Upstream::clientReply: the one call m_data.clientReply(instance, session, pPacket).
Upstream_clientReply(m_data, pPacket) ==
    [entry |-> m_data.entry, instance |-> m_data.instance,
     session |-> m_data.session, packet |-> pPacket]

\* How the concrete session's routeQuery / clientReply can end: it answers
\* itself (short circuit), it delegates to the bound handle, or it raises a
\* runtime fault, before or after delegating.
Endings == {"short_circuit", "delegate", "fault", "delegate_fault"}

\* What a packet call can hand back: the value of whoever completes it, the
\* neighbour delegated to or the session that answers itself.
ReturnValues == {0, 1}

\* The packets the driver sends through the chain.
Packets == {Buf(b, 1) : b \in FirstBytes}

\* FilterSession::routeQuery of the concrete session: what it raises, what it
\* returns and the calls it makes through m_down.
FilterSession_routeQuery(down, pPacket, ending, ret) ==
    [raised |-> ending \in {"fault", "delegate_fault"},
     rv |-> ret,
     calls |-> IF ending \in {"delegate", "delegate_fault"}
               THEN <<Downstream_routeQuery(down, pPacket)>>
               ELSE <<>>]

\* FilterSession::clientReply of the concrete session, through m_up.
FilterSession_clientReply(up, pPacket, ending, ret) ==
    [raised |-> ending \in {"fault", "delegate_fault"},
     rv |-> ret,
     calls |-> IF ending \in {"delegate", "delegate_fault"}
               THEN <<Upstream_clientReply(up, pPacket)>>
               ELSE <<>>]

\* MXS_EXCEPTION_GUARD(rv = statement): a raised fault is caught and logged,
\* the assignment has not happened and rv keeps the value it had.
MXS_EXCEPTION_GUARD(rv, r) ==
    [rv |-> IF r.raised THEN rv ELSE r.rv, escaped |-> FALSE, calls |-> r.calls]

\* Variants of the entry points: rv starts at 1; clientReply calls the
\* session's routeQuery.
Filter_routeQuery_rv1(down, up, pPacket, ending, ret) ==
    MXS_EXCEPTION_GUARD(1, FilterSession_routeQuery(down, pPacket, ending, ret))

Filter_clientReply_wrong_way(down, up, pPacket, ending, ret) ==
    MXS_EXCEPTION_GUARD(0, FilterSession_routeQuery(down, pPacket, ending, ret))

\* Filter::routeQuery: int rv = 0; MXS_EXCEPTION_GUARD(rv = pFilterSession->
\* routeQuery(pPacket)); return rv.
Filter_routeQuery(down, up, pPacket, ending, ret) ==
    MXS_EXCEPTION_GUARD(0, FilterSession_routeQuery(down, pPacket, ending, ret))

\* Filter::clientReply, likewise with pFilterSession->clientReply(pPacket).
Filter_clientReply(down, up, pPacket, ending, ret) ==
    MXS_EXCEPTION_GUARD(0, FilterSession_clientReply(up, pPacket, ending, ret))

\* Variant of closeSession: the session's close() is not called.
Filter_closeSession_no_close(raises) ==
    [closed |-> FALSE, deleted |-> FALSE, escaped |-> FALSE]

\* Filter::closeSession: MXS_EXCEPTION_GUARD(pFilterSession->close()).  The
\* session gets its close() notification; a fault close() raises is caught.
Filter_closeSession(raises) ==
    [closed |-> TRUE, deleted |-> FALSE, escaped |-> FALSE]

\* Filter::freeSession: MXS_EXCEPTION_GUARD(delete pFilterSession).  The
\* session object is deleted; close() is not called from here.
Filter_freeSession(raises) ==
    [closed |-> FALSE, deleted |-> TRUE, escaped |-> FALSE]

\* Filter::createInstance: FilterType* pFilter = NULL; MXS_EXCEPTION_GUARD(
\* pFilter = FilterType::create(...)); return pFilter.
Filter_createInstance(raises) ==
    IF raises THEN {NULL} ELSE {"filter"}

\* Filter::newSession: void* pFilterSession is not initialised, so when
\* FilterType::newSession raises, the pointer returned is indeterminate.
Filter_newSession(raises) ==
    IF raises THEN {NULL, "wild"} ELSE {"session"}

\* Variant of setDownstream: the session keeps a default-constructed handle.
Filter_setDownstream_default(pDownstream) == Downstream_default

\* Filter::setDownstream / Filter::setUpstream: the session keeps a copy of
\* the handle the driver passes.
Filter_setDownstream(pDownstream) == Downstream(pDownstream)

Filter_setUpstream(pUpstream) == Upstream(pUpstream)

NoFilterCall == [fn |-> "none", session |-> 0, packet |-> NoValue, ending |-> "none",
                 ret |-> 0, rv |-> 0, escaped |-> FALSE, calls |-> <<>>]

NoSessions ==
    /\ fsession = [s \in Sessions |-> "none"]
    /\ linked = [s \in Sessions |-> {}]
    /\ m_down = [s \in Sessions |-> Downstream_default]
    /\ m_up = [s \in Sessions |-> Upstream_default]
    /\ closes = [s \in Sessions |-> 0]
    /\ destroyed = [s \in Sessions |-> FALSE]
    /\ fcall = NoFilterCall

NoCallers ==
    /\ pc = [t \in Threads |-> Idle]
    /\ regs = [t \in Threads |-> NoRegs]

NoHistory ==
    /\ used = <<>>
    /\ last = NoCall
    /\ scen = 0

\* ------------------------------------------------------------------------
\* Initial state: LRUStorageMT::create(pstorage, max_count, max_size)
\* ------------------------------------------------------------------------
create(max_count, max_size) ==
    /\ cfg = [max_count |-> max_count, max_size |-> max_size]
    /\ max_item_count = LRUStorageMT(max_count, max_size).max_item_count
    /\ max_total_size = LRUStorageMT(max_count, max_size).max_total_size
    /\ storage = [k \in CACHE_KEY |-> NoValue]
    /\ nodes_by_key = [k \in {} |-> 0]
    /\ lru = <<>>
    /\ item_count = 0
    /\ total_size = 0
    /\ lock_ = 0

InitLRU ==
    /\ \E max_count \in 0..MaxCountLimit, max_size \in 0..MaxSizeLimit :
          create(max_count, max_size)
    /\ NoCallers
    /\ NoHistory
    /\ finstance = "created"
    /\ NoSessions

\* ------------------------------------------------------------------------
\* One caller at a time: a public operation from call to return.  The lock
\* is free at the call and free again at the return.
\* ------------------------------------------------------------------------
Quiet == lock_ = 0 /\ \A t \in Threads : pc[t] = Idle

Call(op, k, v, r) ==
    /\ Quiet
    /\ Becomes(r.st)
    /\ Record(op, k, v, State, r)
    /\ UNCHANGED <<limitVars, lock_, pc, regs, filterVars>>

PutValue(k, v) == Call("put", k, v, put_value(State, k, v, BackendOk))

GetValue(k) == Call("get", k, NoValue, get_value(State, k, BackendOk))

DelValue(k) == Call("del", k, NoValue, del_value(State, k, BackendOk))

GetHead == Call("get_head", NoKey, NoValue, get_head(State))

GetTail == Call("get_tail", NoKey, NoValue, get_tail(State))

GetSize == Call("get_size", NoKey, NoValue, get_size(State))

GetItems == Call("get_items", NoKey, NoValue, get_items(State))

GetInfo == Call("get_info", NoKey, NoValue, get_info(State))

NextLRU ==
    \/ \E k \in CACHE_KEY, v \in GWBUF : PutValue(k, v)
    \/ \E k \in CACHE_KEY : GetValue(k)
    \/ \E k \in CACHE_KEY : DelValue(k)
    \/ GetHead
    \/ GetTail
    \/ GetSize
    \/ GetItems
    \/ GetInfo

SpecLRU == InitLRU /\ [][NextLRU]_vars

\* ------------------------------------------------------------------------
\* One caller at a time over an underlying Storage that can fail: during a
\* call the Storage behaves as bf.
\* ------------------------------------------------------------------------
Behaviours == {BackendOk} \cup BackendFaults

InspectOps == {"get_head", "get_tail", "get_size", "get_items", "get_info"}

\* The values put: one value of every length.
SizedValues == {Buf(0, n) : n \in 1..MaxLen}

\* The record of a call, without what it tells about the call before it.
Brief(c) == [c EXCEPT !.value = NoValue, !.info = <<>>,
                      !.existed = FALSE, !.pre_count = 0, !.pre_size = 0,
                      !.after_put = FALSE, !.put_was_new = FALSE,
                      !.put_was_clean = FALSE]

CallF(op, k, v, bf, r) ==
    /\ Quiet
    /\ Becomes(r.st)
    /\ last' = Brief(Completed(op, k, v, bf, State, r))
    /\ UNCHANGED <<limitVars, lock_, pc, regs, used, scen, filterVars>>

PutValueF(k, v, bf) == CallF("put", k, v, bf, put_value(State, k, v, bf))

GetValueF(k, bf) == CallF("get", k, NoValue, bf, get_value(State, k, bf))

DelValueF(k, bf) == CallF("del", k, NoValue, bf, del_value(State, k, bf))

Inspect(op) ==
    CallF(op, NoKey, NoValue, BackendOk,
          CASE op = "get_head" -> get_head(State)
            [] op = "get_tail" -> get_tail(State)
            [] op = "get_size" -> get_size(State)
            [] op = "get_items" -> get_items(State)
            [] op = "get_info" -> get_info(State))

NextFault ==
    \/ \E k \in CACHE_KEY, v \in SizedValues, bf \in Behaviours : PutValueF(k, v, bf)
    \/ \E k \in CACHE_KEY, bf \in Behaviours : GetValueF(k, bf)
    \/ \E k \in CACHE_KEY, bf \in Behaviours : DelValueF(k, bf)
    \/ \E op \in InspectOps : Inspect(op)

SpecFault == InitLRU /\ [][NextFault]_vars

\* ------------------------------------------------------------------------
\* Several threads sharing one LRUStorageMT.  A public operation is entered,
\* constructs its SpinLockGuard (waits for lock_ and takes it), runs the core
\* operation (which loads the running totals and then stores its updates),
\* and gives lock_ back when the guard goes out of scope at the return.
\* ------------------------------------------------------------------------
PublicOps == {"get_info", "get_value", "put_value", "del_value",
              "get_head", "get_tail", "get_size", "get_items"}

KeyedOps == {"get_value", "put_value", "del_value"}

\* Variant: put_value without its guard.
Guarded_not_put(fn) == fn # "put_value"

\* Every public operation starts with "SpinLockGuard guard(lock_)".
Guarded(fn) == TRUE

\* Variant: put_value calls itself, a public operation, inside its guard.
Callee_put_value_itself(fn) == [public |-> fn = "put_value", fn |-> fn]

\* What a public operation calls inside its guard: the core operation
\* LRUStorage::do_<fn>, never a public operation of the instance.
Callee(fn) == [public |-> FALSE, fn |-> fn]

\* The keys thread t works on; the threads' key sets are pairwise disjoint.
KeyOrder == <<"A", "B", "C">>

KeysOf(t) == {KeyOrder[i] : i \in {j \in 1..Len(KeyOrder) : (j % NumThreads) + 1 = t}}

\* The values the threads put: one value of every length.
ThreadValues == {Buf(0, n) : n \in 1..MaxLen}

\* The results the core operation of fn can produce for thread t from s.
Outcomes(fn, t, s) ==
    CASE fn = "get_info" -> {get_info(s)}
      [] fn = "get_value" -> {get_value(s, k, BackendOk) : k \in KeysOf(t)}
      [] fn = "put_value" -> UNION {{put_value(s, k, v, BackendOk) : v \in ThreadValues} : k \in KeysOf(t)}
      [] fn = "del_value" -> {del_value(s, k, BackendOk) : k \in KeysOf(t)}
      [] fn = "get_head" -> {get_head(s)}
      [] fn = "get_tail" -> {get_tail(s)}
      [] fn = "get_size" -> {get_size(s)}
      [] fn = "get_items" -> {get_items(s)}

\* The storage is created without a limit or with the largest one.
InitMT ==
    /\ \E max_count \in {0, MaxCountLimit}, max_size \in {0, MaxSizeLimit} :
          create(max_count, max_size)
    /\ NoCallers
    /\ NoHistory
    /\ finstance = "created"
    /\ NoSessions

\* Thread t calls the public operation fn.
Enter(t, fn) ==
    /\ pc[t] = Idle
    /\ fn \in KeyedOps => KeysOf(t) # {}
    /\ pc' = [pc EXCEPT ![t] = [fn |-> fn, at |-> "guard"]]
    /\ UNCHANGED <<limitVars, lruVars, lock_, regs, histVars, filterVars>>

\* SpinLockGuard's constructor: spin until the lock is free, then hold it.
spinlock_acquire(t) == lock_ = 0 /\ lock_' = t

\* SpinLockGuard's destructor: the lock is free again.
spinlock_release(t) == lock_' = 0

\* SpinLockGuard guard(lock_), the first statement of the operation.  The
\* thread is then at the call inside the guard: in the core operation, or,
\* were the callee a public operation, at the guard of that operation.
Acquire(t) ==
    /\ pc[t].at = "guard"
    /\ IF Guarded(pc[t].fn)
       THEN spinlock_acquire(t)
       ELSE UNCHANGED lock_
    /\ pc' = [pc EXCEPT ![t].at = IF Callee(pc[t].fn).public THEN "guard" ELSE "core"]
    /\ UNCHANGED <<limitVars, lruVars, regs, histVars, filterVars>>

\* The core operation reads the running totals.
CoreLoad(t) ==
    /\ pc[t].at = "core"
    /\ regs' = [regs EXCEPT ![t] = <<item_count, total_size>>]
    /\ pc' = [pc EXCEPT ![t].at = "update"]
    /\ UNCHANGED <<limitVars, lruVars, lock_, histVars, filterVars>>

\* The core operation completes: its bookkeeping, computed on the totals it
\* read, is stored.
CoreStore(t) ==
    /\ pc[t].at = "update"
    /\ \E r \in Outcomes(pc[t].fn, t, [State EXCEPT !.item_count = regs[t][1],
                                                    !.total_size = regs[t][2]]) :
          Becomes(r.st)
    /\ regs' = [regs EXCEPT ![t] = NoRegs]
    /\ pc' = [pc EXCEPT ![t].at = "return"]
    /\ UNCHANGED <<limitVars, lock_, histVars, filterVars>>

\* The return: the guard is destroyed and the lock is free again.
Release(t) ==
    /\ pc[t].at = "return"
    /\ IF Guarded(pc[t].fn)
       THEN spinlock_release(t)
       ELSE UNCHANGED lock_
    /\ pc' = [pc EXCEPT ![t] = Idle]
    /\ UNCHANGED <<limitVars, lruVars, regs, histVars, filterVars>>

NextMT ==
    \/ \E t \in Threads, fn \in PublicOps : Enter(t, fn)
    \/ \E t \in Threads : Acquire(t)
    \/ \E t \in Threads : CoreLoad(t)
    \/ \E t \in Threads : CoreStore(t)
    \/ \E t \in Threads : Release(t)

SpecMT == InitMT /\ [][NextMT]_vars

\* Scheduling: a thread inside a public operation is not stopped for ever
\* before its next statement, and a thread spinning on the lock gets it once
\* the lock is free again and again.
MTFairness ==
    \A t \in Threads :
        /\ SF_vars(Acquire(t))
        /\ WF_vars(CoreLoad(t))
        /\ WF_vars(CoreStore(t))
        /\ WF_vars(Release(t))

\* The storage is created with the tightest limits: one entry of one byte.
\* What the storage holds has no part in the progress of the lock.
InitTight ==
    /\ create(1, 1)
    /\ NoCallers
    /\ NoHistory
    /\ finstance = "created"
    /\ NoSessions

SpecMTFair == InitTight /\ [][NextMT]_vars /\ MTFairness

\* ------------------------------------------------------------------------
\* put_value step by step, for one caller over a Storage that can fail: the
\* guard, the insert / update, the eviction loop one iteration at a time,
\* and the return.  last holds the call in progress: the evictions done so
\* far, the result so far and how the Storage behaves from here on.
\* ------------------------------------------------------------------------
Caller == 1

InPut(at) == pc[Caller] = [fn |-> "put_value", at |-> at]

\* The call inside the guard starts: the backend put, then the bookkeeping
\* of the insert / update.
PutStore(k, v, bf) ==
    /\ InPut("core")
    /\ IF bf = "put"
       THEN /\ last' = [NoCall EXCEPT !.op = "put", !.key = k, !.arg = v, !.bf = bf,
                                      !.rc = CACHE_RESULT_ERROR]
            /\ pc' = [pc EXCEPT ![Caller].at = "return"]
            /\ UNCHANGED lruVars
       ELSE /\ last' = [NoCall EXCEPT !.op = "put", !.key = k, !.arg = v, !.bf = bf]
            /\ pc' = [pc EXCEPT ![Caller].at = "evict"]
            /\ Becomes(StoreValue(State, k, v))
    /\ UNCHANGED <<limitVars, lock_, regs, used, scen, filterVars>>

\* One iteration of the eviction loop: the backend delete of the least
\* recently used entry, then the bookkeeping; a failing delete ends the call.
EvictStep ==
    /\ InPut("evict")
    /\ OverLimit(State) /\ Len(lru) > 0
    /\ IF last.bf = "del"
       THEN /\ last' = [last EXCEPT !.rc = CACHE_RESULT_ERROR]
            /\ pc' = [pc EXCEPT ![Caller].at = "return"]
            /\ UNCHANGED lruVars
       ELSE /\ last' = [last EXCEPT !.evicted = @ \cup {lru[Len(lru)]},
                                    !.bf = AfterDelete(@)]
            /\ Becomes(EvictTail(State))
            /\ UNCHANGED pc
    /\ UNCHANGED <<limitVars, lock_, regs, used, scen, filterVars>>

\* The loop condition is false: the loop is left.
EvictDone ==
    /\ InPut("evict")
    /\ ~(OverLimit(State) /\ Len(lru) > 0)
    /\ pc' = [pc EXCEPT ![Caller].at = "return"]
    /\ UNCHANGED <<limitVars, lruVars, lock_, regs, histVars, filterVars>>

NextPut ==
    \/ Enter(Caller, "put_value")
    \/ Acquire(Caller)
    \/ \E k \in CACHE_KEY, v \in SizedValues, bf \in Behaviours : PutStore(k, v, bf)
    \/ EvictStep
    \/ EvictDone
    \/ Release(Caller)
    \/ \E k \in CACHE_KEY : DelValueF(k, BackendOk)

\* A call that has begun keeps running: the caller is not stopped for ever
\* before its next statement.
PutFairness ==
    /\ WF_vars(Acquire(Caller))
    /\ WF_vars(\E k \in CACHE_KEY, v \in SizedValues, bf \in Behaviours : PutStore(k, v, bf))
    /\ WF_vars(EvictStep)
    /\ WF_vars(EvictDone)
    /\ WF_vars(Release(Caller))

SpecPut == InitLRU /\ [][NextPut]_vars /\ PutFairness

\* ------------------------------------------------------------------------
\* The pipeline driver calling the entry points of Filter::s_object: per
\* connection newSession, then setDownstream and setUpstream, then
\* routeQuery / clientReply per packet, closeSession once at teardown and
\* freeSession to release the session.
\* ------------------------------------------------------------------------
InitFilter ==
    /\ create(0, 0)
    /\ NoCallers
    /\ NoHistory
    /\ finstance = "none"
    /\ NoSessions

cacheVars == <<limitVars, lruVars, lock_, pc, regs, histVars>>

Wired(s) == m_down[s] # Downstream_default /\ m_up[s] # Upstream_default

\* The driver has set both links of session s.
Linked(s) == linked[s] = {"down", "up"}

\* createInstance, once per filter configuration.  The driver goes on only
\* with a non-null instance.
CreateInstance(raises) ==
    /\ finstance = "none"
    /\ \E ptr \in Filter_createInstance(raises) :
          finstance' = IF ptr = NULL THEN "failed" ELSE "created"
    /\ fcall' = [NoFilterCall EXCEPT !.fn = "createInstance",
                                      !.ending = IF raises THEN "fault" ELSE "return"]
    /\ UNCHANGED <<fsession, linked, m_down, m_up, closes, destroyed, cacheVars>>

NewSession(s, raises) ==
    /\ finstance = "created"
    /\ fsession[s] = "none"
    /\ \E ptr \in Filter_newSession(raises) :
          fsession' = [fsession EXCEPT ![s] =
                          CASE ptr = "session" -> "created"
                            [] ptr = NULL -> "failed"
                            [] OTHER -> "wild"]
    /\ fcall' = [NoFilterCall EXCEPT !.fn = "newSession", !.session = s,
                                      !.ending = IF raises THEN "fault" ELSE "return"]
    /\ UNCHANGED <<finstance, linked, m_down, m_up, closes, destroyed, cacheVars>>

SetDownstream(s, d) ==
    /\ fsession[s] = "created"
    /\ "down" \notin linked[s]
    /\ linked' = [linked EXCEPT ![s] = @ \cup {"down"}]
    /\ m_down' = [m_down EXCEPT ![s] = Filter_setDownstream(DOWNSTREAM(d))]
    /\ fcall' = [NoFilterCall EXCEPT !.fn = "setDownstream", !.session = s]
    /\ UNCHANGED <<finstance, fsession, m_up, closes, destroyed, cacheVars>>

SetUpstream(s, u) ==
    /\ fsession[s] = "created"
    /\ "up" \notin linked[s]
    /\ linked' = [linked EXCEPT ![s] = @ \cup {"up"}]
    /\ m_up' = [m_up EXCEPT ![s] = Filter_setUpstream(UPSTREAM(u))]
    /\ fcall' = [NoFilterCall EXCEPT !.fn = "setUpstream", !.session = s]
    /\ UNCHANGED <<finstance, fsession, m_down, closes, destroyed, cacheVars>>

\* The record of a packet call fn on session s that came back with r.
PacketCall(fn, s, pPacket, ending, ret, r) ==
    /\ fcall' = [fn |-> fn, session |-> s, packet |-> pPacket, ending |-> ending,
                 ret |-> ret,
                 rv |-> r.rv, escaped |-> r.escaped, calls |-> r.calls]
    /\ UNCHANGED <<finstance, fsession, linked, m_down, m_up, closes, destroyed, cacheVars>>

\* Packets go to a session once the driver has set both of its links.
RouteQuery(s, pPacket, ending, ret) ==
    /\ fsession[s] = "created" /\ Linked(s)
    /\ PacketCall("routeQuery", s, pPacket, ending, ret,
                  Filter_routeQuery(m_down[s], m_up[s], pPacket, ending, ret))

ClientReply(s, pPacket, ending, ret) ==
    /\ fsession[s] = "created" /\ Linked(s)
    /\ PacketCall("clientReply", s, pPacket, ending, ret,
                  Filter_clientReply(m_down[s], m_up[s], pPacket, ending, ret))

CloseSession(s, raises) ==
    /\ fsession[s] = "created"
    /\ fsession' = [fsession EXCEPT ![s] = "closed"]
    /\ closes' = [closes EXCEPT ![s] = IF Filter_closeSession(raises).closed
                                       THEN @ + 1 ELSE @]
    /\ destroyed' = [destroyed EXCEPT ![s] = @ \/ Filter_closeSession(raises).deleted]
    /\ fcall' = [NoFilterCall EXCEPT !.fn = "closeSession", !.session = s,
                                      !.ending = IF raises THEN "fault" ELSE "return",
                                      !.escaped = Filter_closeSession(raises).escaped]
    /\ UNCHANGED <<finstance, linked, m_down, m_up, cacheVars>>

FreeSession(s, raises) ==
    /\ fsession[s] = "closed"
    /\ fsession' = [fsession EXCEPT ![s] = "freed"]
    /\ closes' = [closes EXCEPT ![s] = IF Filter_freeSession(raises).closed
                                       THEN @ + 1 ELSE @]
    /\ destroyed' = [destroyed EXCEPT ![s] = @ \/ Filter_freeSession(raises).deleted]
    /\ fcall' = [NoFilterCall EXCEPT !.fn = "freeSession", !.session = s,
                                      !.ending = IF raises THEN "fault" ELSE "return",
                                      !.escaped = Filter_freeSession(raises).escaped]
    /\ UNCHANGED <<finstance, linked, m_down, m_up, cacheVars>>

NextFilter ==
    \/ \E raises \in BOOLEAN : CreateInstance(raises)
    \/ \E s \in Sessions, raises \in BOOLEAN : NewSession(s, raises)
    \/ \E s \in Sessions, d \in DownTargets : SetDownstream(s, d)
    \/ \E s \in Sessions, u \in UpTargets : SetUpstream(s, u)
    \/ \E s \in Sessions, p \in Packets, e \in Endings, ret \in ReturnValues :
          RouteQuery(s, p, e, ret)
    \/ \E s \in Sessions, p \in Packets, e \in Endings, ret \in ReturnValues :
          ClientReply(s, p, e, ret)
    \/ \E s \in Sessions, raises \in BOOLEAN : CloseSession(s, raises)
    \/ \E s \in Sessions, raises \in BOOLEAN : FreeSession(s, raises)

SpecFilter == InitFilter /\ [][NextFilter]_vars

\* ------------------------------------------------------------------------
\* Properties of the LRU storage
\* ------------------------------------------------------------------------
StoredKeys == {k \in CACHE_KEY : storage[k] # NoValue}

\* C1 (eviction bound): after each completed put, a nonzero configured
\* max_count bounds item_count and a nonzero configured max_size bounds
\* total_size.
C1_EvictionBound ==
    /\ cfg.max_count > 0 => item_count <= cfg.max_count
    /\ cfg.max_size > 0 => total_size <= cfg.max_size

\* A put that had to evict has completed under a nonzero limit.
C1_Witness ==
    /\ last.op = "put" /\ last.evicted # {}
    /\ cfg.max_count > 0 /\ item_count = cfg.max_count

\* Position of key k in the list (0 when absent).
Pos(list, k) ==
    IF k \in SeqToSet(list)
    THEN CHOOSE i \in 1..Len(list) : list[i] = k
    ELSE 0

\* C2 (recency correctness): whenever a put evicts, every evicted key was
\* used (successful get or put) less recently than every key that stays
\* stored; with max_count = 2 and no size limit, after put(A), put(B),
\* get(A), put(C) exactly B has been evicted and A and C are retrievable.
C2_Recency ==
    /\ (last.op = "put" /\ last.evicted # {}) =>
          \A e \in last.evicted : \A k \in StoredKeys :
              /\ Pos(used, e) # 0 /\ Pos(used, k) # 0
              /\ Pos(used, k) < Pos(used, e)
    /\ (scen = Len(Scenario) /\ cfg.max_count = 2 /\ cfg.max_size = 0) =>
          /\ last.evicted = {"B"}
          /\ get_value(State, "B", BackendOk).rc = CACHE_RESULT_NOT_FOUND
          /\ get_value(State, "A", BackendOk).rc = CACHE_RESULT_OK
          /\ get_value(State, "C", BackendOk).rc = CACHE_RESULT_OK

\* The recency example has run to its end under max_count = 2.
C2_Witness ==
    /\ scen = Len(Scenario) /\ cfg.max_count = 2 /\ cfg.max_size = 0
    /\ last.op = "put" /\ last.key = "C" /\ last.evicted # {}

\* Sum of the byte sizes of the values the underlying Storage holds for keys.
RECURSIVE SumSizes(_, _)
SumSizes(store, keys) ==
    IF keys = {}
    THEN 0
    ELSE LET k == CHOOSE x \in keys : TRUE
         IN GWBUF_LENGTH(store[k]) + SumSizes(store, keys \ {k})

\* What a put(k, v2) right after a put on k is claimed to leave behind.
OverwriteOutcome(k, v2) ==
    /\ item_count' = item_count
    /\ get_value(State', k, BackendOk).rc = CACHE_RESULT_OK
    /\ get_value(State', k, BackendOk).value = v2
    /\ total_size' = SumSizes(storage', CACHE_KEY \ {k}) + GWBUF_LENGTH(v2)

\* This step is a call op on key k.
StepIs(op, k) == last'.op = op /\ last'.key = k /\ k \in CACHE_KEY

\* C3 as stated (idempotent overwrite): put(K, V1) immediately followed by
\* put(K, V2) leaves item_count as it was after the first put, get(K)
\* returns V2 and K contributes size(V2) to total_size, under any limits.
C3_Original ==
    [][(StepIs("put", last'.key) /\ JustPut(last'.key)) =>
          OverwriteOutcome(last'.key, last'.arg)]_vars

\* C3 amended (idempotent overwrite): the same, when K is still stored after
\* the first put and the second put evicts no key.
C3_Overwrite ==
    [][(/\ StepIs("put", last'.key) /\ JustPut(last'.key)
        /\ storage[last'.key] # NoValue
        /\ last'.evicted = {}) => OverwriteOutcome(last'.key, last'.arg)]_vars

\* A put has overwritten the value a put stored just before, evicting nothing.
C3_Witness ==
    /\ last.op = "put" /\ last.rc = CACHE_RESULT_OK
    /\ last.after_put /\ last.existed /\ last.evicted = {}
    /\ storage[last.key] # NoValue

\* What delete(k) right after put(k, v) on an absent k is claimed to leave.
DeleteOutcome(k) ==
    /\ get_value(State', k, BackendOk).rc = CACHE_RESULT_NOT_FOUND
    /\ item_count' = last.pre_count
    /\ total_size' = last.pre_size

\* C4 as stated (delete correctness): for K absent, put(K, V) then delete(K)
\* then get(K) returns NotFound, and item_count and total_size are back at
\* their values before the put, from any reachable state.
C4_Original ==
    [][(StepIs("del", last'.key) /\ JustPut(last'.key) /\ ~last.existed) =>
          DeleteOutcome(last'.key)]_vars

\* C4 amended (delete correctness): the same, when the put evicts no key.
C4_Delete ==
    [][(/\ StepIs("del", last'.key) /\ JustPut(last'.key) /\ ~last.existed
        /\ last.evicted = {}) => DeleteOutcome(last'.key)]_vars

\* A delete has removed the key that a put had just inserted without evicting.
C4_Witness ==
    /\ last.op = "del" /\ last.rc = CACHE_RESULT_OK
    /\ last.after_put /\ last.put_was_new /\ last.put_was_clean
    /\ last.pre_count > 1

\* C5 (oversized single entry): under max_size = L > 0, a put(K, V) with
\* size(V) > L returns Ok, and right after it get(K) returns NotFound and
\* total_size is 0.
C5_Oversized ==
    (/\ last.op = "put"
     /\ cfg.max_size > 0 /\ GWBUF_LENGTH(last.arg) > cfg.max_size) =>
        /\ last.rc = CACHE_RESULT_OK
        /\ get_value(State, last.key, BackendOk).rc = CACHE_RESULT_NOT_FOUND
        /\ total_size = 0

\* A put under a size limit has evicted the very key it inserted, from a
\* store that held other entries.
C5_Witness ==
    /\ last.op = "put" /\ last.rc = CACHE_RESULT_OK
    /\ cfg.max_size > 0 /\ last.key \in last.evicted
    /\ last.pre_count > 0

\* ------------------------------------------------------------------------
\* Properties of the multi-threaded wrapper
\* ------------------------------------------------------------------------
\* Thread t is between the start of its core operation and its return.
InCore(t) == pc[t].at \in {"core", "update", "return"}

\* C6 (mutual exclusion): a thread that is anywhere from the start of the
\* core operation of its public operation to the return holds the lock, so
\* no two threads are inside a core operation at the same time.
C6_MutualExclusion ==
    /\ \A t \in Threads : InCore(t) => lock_ = t
    /\ \A t, u \in Threads : (InCore(t) /\ InCore(u)) => t = u

\* One thread is in the middle of a core put while another waits at its guard.
C6_Witness ==
    \E t, u \in Threads :
        /\ t # u /\ lock_ = t
        /\ pc[t] = [fn |-> "put_value", at |-> "update"]
        /\ pc[u].at = "guard" /\ pc[u].fn = "del_value"

\* The bookkeeping agrees with the entries actually stored.
Consistent ==
    /\ item_count = Cardinality(StoredKeys)
    /\ total_size = SumSizes(storage, CACHE_KEY)
    /\ DOMAIN nodes_by_key = SeqToSet(lru)
    /\ Len(lru) = Cardinality(SeqToSet(lru))
    /\ SeqToSet(lru) = StoredKeys

\* C7 (concurrent consistency): threads working on pairwise disjoint key
\* sets; whenever all calls have returned, item_count is the number of
\* stored keys, total_size the sum of the sizes of their values, and the
\* map and the list hold the same keys.
C7_ConcurrentConsistency ==
    (\A t \in Threads : pc[t] = Idle) => Consistent

\* All calls have returned, and keys of two different threads survive.
C7_Witness ==
    /\ \A t \in Threads : pc[t] = Idle
    /\ \E t, u \in Threads :
          /\ t # u
          /\ KeysOf(t) \cap StoredKeys # {}
          /\ KeysOf(u) \cap StoredKeys # {}

\* ------------------------------------------------------------------------
\* Properties of the filter scaffold
\* ------------------------------------------------------------------------
\* The one call the handle m_data makes for pPacket.
Forwarded(m_data, pPacket) ==
    [entry |-> m_data.entry, instance |-> m_data.instance,
     session |-> m_data.session, packet |-> pPacket]

\* The handle a packet call fn of session s delegates to.
BoundHandle(fn, s) == IF fn = "routeQuery" THEN m_down[s] ELSE m_up[s]

PacketFns == {"routeQuery", "clientReply"}

\* C8 (chain wiring): a routeQuery (clientReply) call on a wired session
\* that ends by delegating has invoked the entry point of the bound
\* downstream (upstream) handle exactly once, with the handle's instance and
\* session and the call's packet, and returns what that returned; a call
\* the session answers itself has invoked no handle.
C8_ChainWiring ==
    fcall.fn \in PacketFns =>
        /\ fcall.ending = "delegate" =>
              /\ fcall.calls = <<Forwarded(BoundHandle(fcall.fn, fcall.session),
                                           fcall.packet)>>
              /\ fcall.rv = fcall.ret
        /\ fcall.ending = "short_circuit" =>
              /\ fcall.calls = <<>>
              /\ fcall.rv = fcall.ret

\* A reply has been delegated upstream, with result 1, while the other
\* session is wired to a different downstream component.
C8_Witness ==
    /\ fcall.fn = "clientReply" /\ fcall.ending = "delegate"
    /\ Len(fcall.calls) = 1 /\ fcall.rv = 1
    /\ \E s \in Sessions :
          /\ s # fcall.session /\ Wired(s)
          /\ m_down[s] # m_down[fcall.session]

\* C9 (fault containment): a routeQuery / clientReply call whose session
\* raises a fault returns 0 to the driver and lets no fault escape, and it
\* leaves every session as it was, so that later calls find the sessions as
\* if the fault had not happened.
C9_FaultContainment ==
    [][(fcall'.fn \in PacketFns /\ fcall'.ending \in {"fault", "delegate_fault"}) =>
          /\ fcall'.rv = 0 /\ ~fcall'.escaped
          /\ UNCHANGED <<finstance, fsession, linked, m_down, m_up, closes, destroyed>>]_vars

\* The session raised after the next component had returned 1; the driver
\* got 0 and the other session is still wired.
C9_Witness ==
    /\ fcall.fn = "routeQuery" /\ fcall.ending = "delegate_fault"
    /\ fcall.ret = 1 /\ fcall.rv = 0 /\ Len(fcall.calls) = 1
    /\ \E s \in Sessions : s # fcall.session /\ fsession[s] = "created" /\ Wired(s)

\* The entry points that use a session without destroying it.
UsingFns == {"setDownstream", "setUpstream", "routeQuery", "clientReply", "closeSession"}

\* C10 (teardown ordering): close() is never delivered twice to a session,
\* a destroyed session has had its close() exactly once, a closed session
\* not yet freed is not destroyed, and no entry point other than freeSession
\* is called on a session after its close().
C10_Teardown ==
    /\ [](\A s \in Sessions :
            /\ closes[s] <= 1
            /\ destroyed[s] => closes[s] = 1
            /\ fsession[s] = "closed" => (closes[s] = 1 /\ ~destroyed[s]))
    /\ [][\A s \in Sessions :
            closes[s] >= 1 => ~(fcall'.session = s /\ fcall'.fn \in UsingFns)]_vars

\* A session has been wired, closed and then destroyed.
C10_Witness ==
    \E s \in Sessions :
        /\ fsession[s] = "freed" /\ destroyed[s] /\ closes[s] = 1
        /\ Wired(s)

\* C11 (null handles are never invoked): every call a routeQuery or
\* clientReply call has made through a handle went to a non-null entry
\* point, and the handle of the session it went through is not the
\* default-constructed one.
C11_NoNullHandle ==
    fcall.fn \in PacketFns =>
        /\ \A i \in 1..Len(fcall.calls) : fcall.calls[i].entry # NULL
        /\ BoundHandle(fcall.fn, fcall.session) # Downstream_default
        /\ BoundHandle(fcall.fn, fcall.session).entry # NULL

\* A query has been delegated through the downstream handle of a session
\* while another session exists whose links are still unset.
C11_Witness ==
    /\ fcall.fn = "routeQuery" /\ fcall.ending = "delegate"
    /\ Len(fcall.calls) = 1
    /\ \E s \in Sessions :
          /\ s # fcall.session /\ fsession[s] = "created"
          /\ m_down[s] = Downstream_default /\ m_up[s] = Upstream_default

\* ------------------------------------------------------------------------
\* Properties of the LRU storage over a Storage that can fail
\* ------------------------------------------------------------------------
\* The underlying Storage returns Error to some call that op(k, v) makes from
\* the state s when it behaves as bf: to the get of a get, to the delete of a
\* delete, to the put of a put, or to the first (second) delete that the
\* evictions of a put need.
BackendErrs(s, op, k, v, bf) ==
    \/ op = "get" /\ bf = "get"
    \/ op = "del" /\ bf = "del"
    \/ op = "put" /\ bf = "put"
    \/ op = "put" /\ bf = "del"
          /\ Cardinality(do_put_value(s, k, v, BackendOk).evicted) >= 1
    \/ op = "put" /\ bf = "del2"
          /\ Cardinality(do_put_value(s, k, v, BackendOk).evicted) >= 2

\* This step is a call to which the underlying Storage returned Error.
FailedStep == BackendErrs(State, last'.op, last'.key, last'.arg, last'.bf)

\* C12 (error propagation): a get, put or delete during which the
\* underlying Storage returns Error returns Error to its caller.
C12_ErrorPropagation ==
    [][FailedStep => last'.rc = CACHE_RESULT_ERROR]_vars

\* A put has returned Error because the second eviction it needed failed.
C12_Witness ==
    /\ last.op = "put" /\ last.bf = "del2"
    /\ last.rc = CACHE_RESULT_ERROR /\ last.evicted # {}

\* ------------------------------------------------------------------------
\* Zero-valued limits
\* ------------------------------------------------------------------------
\* Of the keys this put step evicts, the one evicted last: the one nearest
\* to the most recently used end after the insert.
LastEvicted ==
    LET l == MoveToFront(lru, last'.key)
    IN CHOOSE e \in last'.evicted :
          \A x \in last'.evicted : Pos(l, e) <= Pos(l, x)

\* The size of the entry of key e after the insert of this put step.
SizeAtEviction(e) ==
    IF e = last'.key THEN GWBUF_LENGTH(last'.arg) ELSE nodes_by_key[e]

\* C13 (zero means unlimited): under max_count = 0 a put evicts only while
\* total_size exceeds a nonzero max_size, under max_size = 0 only while
\* item_count exceeds a nonzero max_count; with both limits 0 no put evicts,
\* the key put is retrievable with the value put, and a stored key stays
\* stored until it is deleted.
C13_ZeroUnlimited ==
    [][/\ (last'.op = "put" /\ last'.evicted # {} /\ cfg.max_count = 0) =>
             /\ cfg.max_size > 0
             /\ total_size' + SizeAtEviction(LastEvicted) > cfg.max_size
       /\ (last'.op = "put" /\ last'.evicted # {} /\ cfg.max_size = 0) =>
             /\ cfg.max_count > 0
             /\ item_count' + 1 > cfg.max_count
       /\ (cfg.max_count = 0 /\ cfg.max_size = 0) =>
             /\ last'.evicted = {}
             /\ last'.op = "put" =>
                   /\ get_value(State', last'.key, BackendOk).rc = CACHE_RESULT_OK
                   /\ get_value(State', last'.key, BackendOk).value = last'.arg
             /\ \A k \in StoredKeys :
                   get_value(State', k, BackendOk).rc = CACHE_RESULT_OK
                      \/ (last'.op = "del" /\ last'.key = k)]_vars

\* Without limits, every key is stored with a value of the largest size: more
\* entries and more bytes than any limit of the model would allow.
C13_Witness ==
    /\ cfg.max_count = 0 /\ cfg.max_size = 0
    /\ last.op = "put"
    /\ item_count = Cardinality(CACHE_KEY) /\ item_count > MaxCountLimit
    /\ total_size = Cardinality(CACHE_KEY) * MaxLen /\ total_size > MaxSizeLimit

\* ------------------------------------------------------------------------
\* Bookkeeping over a Storage that can fail
\* ------------------------------------------------------------------------
\* The state after the n least recently used entries of s have been evicted.
RECURSIVE EvictN(_, _)
EvictN(s, n) == IF n = 0 THEN s ELSE EvictN(EvictTail(s), n - 1)

\* The decorator's own state: map, list and running totals.
Bookkeeping(s) == <<s.nodes_by_key, s.lru, s.item_count, s.total_size>>

\* C14 (no partial updates): when the backend put of a put or the backend
\* delete of a delete fails, map, list and totals (and the Storage) are what
\* they were before the call; when the backend delete of an eviction fails,
\* they are what they were before that eviction: the insert and the
\* evictions done so far are there, and the entry whose eviction failed is
\* still in the Storage, in the map and at the end of the list.
C14_NoPartialUpdate ==
    [][FailedStep =>
          IF last'.op = "put" /\ last'.bf # "put"
          THEN LET before == EvictN(StoreValue(State, last'.key, last'.arg),
                                    Cardinality(last'.evicted))
               IN /\ State' = before
                  /\ Len(lru') > 0
                  /\ lru'[Len(lru')] \in DOMAIN nodes_by_key'
                  /\ storage'[lru'[Len(lru')]] # NoValue
          ELSE /\ Bookkeeping(State') = Bookkeeping(State)
               /\ storage' = storage]_vars

\* The second eviction of a put has failed: one entry has been evicted, the
\* next one is still there.
C14_Witness ==
    /\ last.op = "put" /\ last.bf = "del2" /\ last.rc = CACHE_RESULT_ERROR
    /\ Cardinality(last.evicted) = 1
    /\ item_count >= 2

\* C15 (map/list consistency): the keys of the recency list, the keys of
\* the key-to-node map and the keys the underlying Storage holds are the
\* same set, and no key is twice in the list.
C15_MapListConsistency ==
    /\ SeqToSet(lru) = DOMAIN nodes_by_key
    /\ SeqToSet(lru) = StoredKeys
    /\ Len(lru) = Cardinality(SeqToSet(lru))

\* A put has failed in its second eviction, leaving two or more entries.
C15_Witness ==
    /\ last.op = "put" /\ last.rc = CACHE_RESULT_ERROR
    /\ last.bf = "del2" /\ last.evicted # {}
    /\ Len(lru) >= 2

\* C16 (running totals are exact): item_count is the number of entries the
\* Storage holds and total_size the sum of the sizes of their values; a
\* get_items / get_size call reports these numbers.
C16_ExactTotals ==
    /\ item_count = Cardinality(StoredKeys)
    /\ total_size = SumSizes(storage, CACHE_KEY)
    /\ last.op = "get_items" =>
          /\ last.rc = CACHE_RESULT_OK
          /\ last.num = Cardinality(StoredKeys)
    /\ last.op = "get_size" =>
          /\ last.rc = CACHE_RESULT_OK
          /\ last.num = SumSizes(storage, CACHE_KEY)

\* get_size has reported the bytes of two entries of different sizes.
C16_Witness ==
    /\ last.op = "get_size" /\ item_count = 2
    /\ last.num = 3 /\ last.num # item_count

\* The calls that are to change nothing: a get that misses, a delete that
\* finds nothing, and the inspecting operations.
NonMutating(c) ==
    \/ c.op \in {"get", "del"} /\ c.rc = CACHE_RESULT_NOT_FOUND
    \/ c.op \in InspectOps

\* C17 (non-mutating operations): a get that misses, a delete that returns
\* NotFound and every get_head, get_tail, get_size, get_items and get_info
\* call leave the list, the map, item_count and total_size (and the
\* underlying Storage) as they were.
C17_NonMutating ==
    [][NonMutating(last') =>
          /\ Bookkeeping(State') = Bookkeeping(State)
          /\ storage' = storage]_vars

\* get_tail has handed out the least recently used of several entries, and
\* that entry is still the least recently used one.
C17_Witness ==
    /\ last.op = "get_tail" /\ last.rc = CACHE_RESULT_OK
    /\ Len(lru) >= 2 /\ lru[Len(lru)] = last.out_key

\* ------------------------------------------------------------------------
\* Termination of put_value
\* ------------------------------------------------------------------------
\* C18 (eviction terminates): every iteration of the eviction loop either
\* shortens the recency list by one entry or ends the call with Error, a
\* put that returns Ok is within its limits, and every put_value call that
\* has begun returns, whatever store state, value size, limits and backend
\* failure it meets.
C18_EvictionTerminates ==
    /\ [][(InPut("evict") /\ pc' # pc) =>
             (pc'[Caller].at = "return")]_vars
    /\ [][(InPut("evict") /\ pc' = pc) =>
             (Len(lru') = Len(lru) - 1 /\ item_count' = item_count - 1)]_vars
    /\ []((InPut("return") /\ last.rc = CACHE_RESULT_OK) => ~OverLimit(State))
    /\ (pc[Caller].fn = "put_value") ~> (pc[Caller] = Idle)

\* A put is returning Ok after it evicted every entry, its own included: the
\* value alone exceeds max_size.
C18_Witness ==
    /\ InPut("return") /\ last.rc = CACHE_RESULT_OK
    /\ last.key \in last.evicted /\ Cardinality(last.evicted) >= 2
    /\ Len(lru) = 0

C20_CreationFault ==
    /\ (fcall.fn = "createInstance" /\ fcall.ending = "fault") =>
          finstance = "failed"
    /\ (fcall.fn = "newSession" /\ fcall.ending = "fault") =>
          fsession[fcall.session] = "failed"

====
